---------------------------- MODULE Spec2Model ----------------------------
(***************************************************************************)
(* Model of the FantasticSukhi/Chat repository.                            *)
(*                                                                         *)
(* The repository holds two bot entry points with separate state:          *)
(*   src/bot.py   rate limiter, per-user conversation log, generation      *)
(*                pipeline, chunked replies, admin commands, restart loop  *)
(*   src/main.py  the /clone registration dialogue backed by MongoDB       *)
(* src/config.py holds BOT_CONFIG, the configuration read by bot.py.       *)
(*                                                                         *)
(* Five specifications share the variables below:                          *)
(*   SpecSplit  send_long_message applied to arbitrary text / max length   *)
(*   Spec       the bot.py dispatcher (plain text and /clear)              *)
(*   SpecAdmin  the bot.py dispatcher with /stats, /broadcast and the      *)
(*              commands no handler is registered for                      *)
(*   SpecRun    the restart loop of run_bot                                *)
(*   SpecClone  the main.py dispatcher (clone dialogue and chat_message)   *)
(*                                                                         *)
(* Modelling conventions                                                   *)
(*  - Text is a sequence of one-character strings, so slicing, stripping   *)
(*    and length are computed as Python computes them.                     *)
(*  - time.time() is the variable now, counted in ticks, TicksPerSecond    *)
(*    ticks to the second; it never decreases.                             *)
(*  - BOT_CONFIG is data read at run time.  Init sets the configured       *)
(*    values to the bounds MaxLimit, MaxHistorySize and MaxChunkLen, not   *)
(*    to config.py's defaults (rate_limit_per_user 5,                      *)
(*    conversation_history_size 10, max_message_length 4000): the          *)
(*    handlers read them through BOT_CONFIG and never assume a value.      *)
(*  - Both Application objects are built without concurrent_updates        *)
(*    (bot.py:381-388, main.py:307), so the dispatcher awaits one          *)
(*    handler to completion before it takes the next update.               *)
(*  - A transport send can raise where the source provides for it: inside  *)
(*    a try block or inside send_long_message.  A send outside any try     *)
(*    block is taken as delivered; what happens when it is not is decided  *)
(*    by the framework's dispatcher, which is not part of the repository.  *)
(*  - Variables named g_* are history variables: they record what the      *)
(*    code did and are never read by an action's guard or effect.          *)
(***************************************************************************)
EXTENDS Integers, Sequences, FiniteSets, TLC

VARIABLES
    now,                 \* time.time(), in ticks
    BOT_CONFIG,          \* config.py BOT_CONFIG (the entries the handlers read)
    user_message_times,  \* bot.py:103  user id -> timestamps of admitted events
    user_conversations,  \* bot.py:102  defaultdict: user id -> list of turns
    hm,                  \* the handle_message call in flight, if any
    lm,                  \* the send_long_message call in flight, if any
    g_accepted,          \* ghost: per user, every timestamp the limiter accepted
    g_rejected,          \* ghost: per user, the number of events the limiter rejected
    g_appended,          \* ghost: per user, every turn appended since the last clear
    g_events,            \* ghost: number of updates dispatched so far
    g_last,              \* ghost: the last update dispatched and the replies to it
    g_broadcast,         \* ghost: the deliveries of the last update, if a broadcast
    db_collection,       \* main.py:38,69  "None" or the cloned_bots collection
    conversations,       \* ConversationHandler state per (chat, user) key
    cloned_bots,         \* the documents of the cloned_bots collection
    g_clone,             \* ghost: the last main.py update and what handling it did
    rb,                  \* bot.py run_bot: position, locals and the application
    g_run                \* ghost: attempts and failures of run_bot so far

vars == << now, BOT_CONFIG, user_message_times, user_conversations, hm, lm,
           g_accepted, g_rejected, g_appended, g_events, g_last, g_broadcast,
           db_collection, conversations, cloned_bots, g_clone, rb, g_run >>

botVars   == << now, user_message_times, user_conversations, hm,
                g_accepted, g_rejected, g_appended, g_events, g_last, g_broadcast >>
cloneVars == << db_collection, conversations, cloned_bots, g_clone >>
runVars   == << rb, g_run >>

---------------------------------------------------------------------------
(* Bounds of the model *)

MaxTime        == 2   \* the clock stops advancing at this tick
TicksPerSecond == 2   \* clock resolution: ticks per second
MaxEvents      == 4   \* updates dispatched to bot.py in one behaviour
MaxLimit       == 2   \* the configured rate_limit_per_user
MaxHistorySize == 3   \* the configured conversation_history_size
MaxChunkLen    == 2   \* max_message_length ranges over 1..MaxChunkLen
MaxTextLen     == 4   \* send_long_message is applied to texts of 0..MaxTextLen

Users == {"u1", "u2"}

Min(a, b) == IF a < b THEN a ELSE b

---------------------------------------------------------------------------
(* Text *)

Alphabet == {"a", "b"}

\* every text of length 0..n over Alphabet
TextsUpTo(n) == UNION { [1..k -> Alphabet] : k \in 0..n }

\* Python slice text[i:j] for 0 <= i <= j (indices from 0, clipped to len(text))
Slice(text, i, j) == SubSeq(text, i + 1, Min(j, Len(text)))

\* "".join(segments)
RECURSIVE Concat(_)
Concat(segments) ==
    IF segments = << >> THEN << >>
    ELSE Head(segments) \o Concat(Tail(segments))

---------------------------------------------------------------------------
(* bot.py: send_long_message *)

\* mutation: the range runs one index too far (i <= len(text))
RangeHasNext_Inclusive(i, n) == i <= n

\* range(0, len(text), max_len) still yields index i
RangeHasNext(i, n) == i < n

\* mutation: the slice stops one character early (text[i:i+max_len-1])
Segment_DropsLast(text, i, max_len) == Slice(text, i, i + max_len - 1)

\* text[i:i+max_len]
Segment(text, i, max_len) == Slice(text, i, i + max_len)

NoCall == [pc |-> "none", text |-> << >>, i |-> 0, sent |-> << >>]

\* the call send_long_message(update, text): max_len is read, the loop starts
LM_Call(text) == [pc |-> "loop", text |-> text, i |-> 0, sent |-> << >>]

\* one iteration: reply_text(text[i:i+max_len]) is awaited and delivered
LM_Iterate ==
    /\ lm.pc = "loop"
    /\ RangeHasNext(lm.i, Len(lm.text))
    /\ lm' = [lm EXCEPT
                !.sent = Append(@, Segment(lm.text, lm.i, BOT_CONFIG.max_message_length)),
                !.i = @ + BOT_CONFIG.max_message_length]

\* one iteration: reply_text raises, the exception leaves the loop
LM_Raise ==
    /\ lm.pc = "loop"
    /\ RangeHasNext(lm.i, Len(lm.text))
    /\ lm' = [lm EXCEPT !.pc = "raised"]

\* mutation: the call returns from inside the loop
LM_Return_Early ==
    /\ lm.pc = "loop"
    /\ lm' = [lm EXCEPT !.pc = "returned"]

\* the range is exhausted, the call returns
LM_Return ==
    /\ lm.pc = "loop"
    /\ ~RangeHasNext(lm.i, Len(lm.text))
    /\ lm' = [lm EXCEPT !.pc = "returned"]

---------------------------------------------------------------------------
(* Initial values *)

ConfigInit(limits, sizes, lens, blocked) ==
    BOT_CONFIG \in [rate_limit_per_user : limits,
                    conversation_history_size : sizes,
                    max_message_length : lens,
                    blocked_users : blocked]

NoHandler == [pc |-> "idle", user |-> "-", user_message |-> << >>, response |-> << >>]
NoUpdate  == [user |-> "-", kind |-> "-", admitted |-> FALSE, replies |-> << >>]
NoBroadcast == [attempted |-> << >>, delivered |-> << >>, broadcast_count |-> 0]

\* run_bot about to be called by main(): no local is bound yet
RunNotCalled == [pc |-> "entry", retry_count |-> 0, application |-> "unbound",
                 telegram_ok |-> FALSE, gemini_ok |-> FALSE, exit |-> "-"]
NoRun == [attempts |-> 0, failures |-> 0, restarts |-> 0]

\* bot.py:102-103 and the ghosts, at module load
BotInit ==
    /\ now = 0
    /\ user_message_times = [u \in Users |-> << >>]
    /\ user_conversations = [u \in {} |-> << >>]
    /\ hm = NoHandler
    /\ g_accepted = [u \in Users |-> << >>]
    /\ g_rejected = [u \in Users |-> 0]
    /\ g_appended = [u \in Users |-> << >>]
    /\ g_events = 0
    /\ g_last = NoUpdate
    /\ g_broadcast = NoBroadcast
    /\ rb = RunNotCalled
    /\ g_run = NoRun

---------------------------------------------------------------------------
(* main.py: the /clone dialogue *)

Chats == {"c1", "c2"}
\* ConversationHandler keeps one state per (chat id, user id): u1 writes in
\* two chats, u2 shares one of them
Keys  == (Chats \X Users) \ { << "c2", "u2" >> }

\* AWAITING_TOKEN = 1, ConversationHandler.END: the key holds no state
AWAITING_TOKEN == "AwaitingToken"
END            == "Idle"

TokenMinLength == 30
MaxRecords     == 2   \* documents inserted in one behaviour
MaxStreak      == 3   \* the ghost count of consecutive invalid tokens stops here

Rep(c, n) == [i \in 1..n |-> c]
Range(s)  == { s[i] : i \in DOMAIN s }

\* the texts a user sends: around the length threshold, with and without the
\* delimiter, with and without surrounding whitespace
CloneTexts ==
    { Rep("x", TokenMinLength) \o << ":" >>,
      Rep("x", TokenMinLength + 1),
      Rep("x", TokenMinLength - 1) \o << ":" >>,
      << " " >> \o Rep("x", TokenMinLength - 1) \o << ":", " " >>,
      << " " >> \o Rep("x", TokenMinLength) \o << ":", "\n" >>,
      << "h", "i" >> }

IsSpace(c) == c \in {" ", "\t", "\n"}

RECURSIVE LStrip(_)
LStrip(s) == IF s # << >> /\ IsSpace(Head(s)) THEN LStrip(Tail(s)) ELSE s

RECURSIVE RStrip(_)
RStrip(s) ==
    IF s # << >> /\ IsSpace(s[Len(s)]) THEN RStrip(SubSeq(s, 1, Len(s) - 1)) ELSE s

\* str.strip()
Strip(s) == RStrip(LStrip(s))

\* mutation: the length test is >= instead of >
TokenShape_AtLeast(bot_token) ==
    Len(bot_token) >= TokenMinLength /\ ":" \in Range(bot_token)

\* len(bot_token) > 30 and ':' in bot_token
TokenShape(bot_token) ==
    Len(bot_token) > TokenMinLength /\ ":" \in Range(bot_token)

\* initialize_mongodb(): None when MONGO_DB_URL is unset or the ping fails
initialize_mongodb(url_set, ping_ok) ==
    IF ~url_set THEN "None"
    ELSE IF ping_ok THEN "cloned_bots" ELSE "None"

\* mutation: clone_start does not test db_collection
NotInitialized_Never(coll) == FALSE

\* not db_collection
NotInitialized(coll) == coll = "None"

FullName(u) == << "name", u >>

\* the document receive_bot_token inserts (registered_at, which nothing reads
\* back, is left out)
CloneDocument(u, bot_token) ==
    [cloner_telegram_id |-> u, cloner_telegram_name |-> FullName(u),
     bot_token |-> bot_token]

\* the value each handler returns to the ConversationHandler
OnRegistered_Stays    == AWAITING_TOKEN   \* mutation
OnRegistered          == END              \* main.py:206
OnRegisterError_Stays == AWAITING_TOKEN   \* mutation
OnRegisterError       == END              \* main.py:213
OnInvalidToken        == AWAITING_TOKEN   \* main.py:187
OnCancel_Stays        == AWAITING_TOKEN   \* mutation
OnCancel              == END              \* main.py:218

\* clone_start: replies, returned state
clone_start(coll) ==
    IF NotInitialized(coll)
    THEN [replies |-> << "not_initialized" >>, state |-> END, insert |-> << >>]
    ELSE [replies |-> << "send_token" >>, state |-> AWAITING_TOKEN, insert |-> << >>]

\* receive_bot_token: insert_ok says whether insert_one returns or raises,
\* reply_ok whether the success message (inside the try) is delivered
receive_bot_token(u, text, insert_ok, reply_ok) ==
    LET bot_token == Strip(text) IN
    IF ~TokenShape(bot_token)
    THEN [replies |-> << "invalid_token" >>, state |-> OnInvalidToken,
          insert |-> << >>]
    ELSE IF ~insert_ok
    THEN [replies |-> << "register_error" >>, state |-> OnRegisterError,
          insert |-> << >>]
    ELSE IF reply_ok
    THEN [replies |-> << "registered" >>, state |-> OnRegistered,
          insert |-> << CloneDocument(u, bot_token) >>]
    ELSE [replies |-> << "register_error" >>, state |-> OnRegisterError,
          insert |-> << CloneDocument(u, bot_token) >>]

\* cancel_clone
cancel_clone == [replies |-> << "cancelled" >>, state |-> OnCancel, insert |-> << >>]

\* chat_message: the generation call returns parts, returns none, or raises;
\* the handler keeps no state
chat_message(outcome) ==
    [replies |-> << outcome >>, insert |-> << >>]

GenerationOutcomes == {"response", "no_content", "generation_error"}

NoCloneUpdate ==
    [handler |-> "-", key |-> << "-", "-" >>, event |-> "-", text |-> << >>,
     pre |-> END, prev |-> "-", replies |-> << >>, inserted |-> 0,
     insert_ok |-> FALSE, streak |-> 0]

\* main.py:37-38 before initialize_mongodb, a fresh ConversationHandler
CloneIdle ==
    /\ db_collection = "None"
    /\ conversations = [k \in Keys |-> END]
    /\ cloned_bots = << >>
    /\ g_clone = NoCloneUpdate

\* the handler of the update just before, when it had the same key
PrevHandler(k) == IF g_clone.key = k THEN g_clone.handler ELSE "-"

\* the ghost record of a handled update
Handled(handler, k, event, text, res, insert_ok) ==
    [handler |-> handler, key |-> k, event |-> event, text |-> text,
     pre |-> conversations[k], prev |-> PrevHandler(k), replies |-> res.replies,
     inserted |-> Len(res.insert), insert_ok |-> insert_ok,
     streak |-> IF handler = "receive_bot_token" /\ res.replies = << "invalid_token" >>
                THEN IF g_clone.handler = "receive_bot_token" /\ g_clone.key = k
                        /\ g_clone.replies = << "invalid_token" >>
                     THEN Min(g_clone.streak + 1, MaxStreak)
                     ELSE 1
                ELSE 0]

\* no handler of the application matches the update
Dropped(k, event) ==
    /\ g_clone' = [NoCloneUpdate EXCEPT !.key = k, !.event = event,
                                        !.pre = conversations[k],
                                        !.prev = PrevHandler(k)]
    /\ UNCHANGED << conversations, cloned_bots >>

\* /clone: an entry point of the conversation handler, consulted only while
\* the key holds no state (allow_reentry is not set)
CloneCommand(k) ==
    /\ IF conversations[k] = END
       THEN LET res == clone_start(db_collection) IN
            /\ conversations' = [conversations EXCEPT ![k] = res.state]
            /\ g_clone' = Handled("clone_start", k, "clone", << >>, res, FALSE)
            /\ UNCHANGED cloned_bots
       ELSE Dropped(k, "clone")
    /\ UNCHANGED << db_collection, BOT_CONFIG, botVars, lm, runVars >>

\* mutation: the conversation handler never takes a plain text (as when the
\* chat_message handler is registered ahead of it)
InDialogue_Never(k) == FALSE

\* the conversation handler, registered first, takes a plain text when the
\* key of the update, (chat id, user id), is in AWAITING_TOKEN
InDialogue(k) == conversations[k] = AWAITING_TOKEN

\* a plain text: receive_bot_token while the key is in AWAITING_TOKEN, else the
\* MessageHandler registered after the conversation handler, chat_message
TextMessage(k, text) ==
    /\ IF InDialogue(k)
       THEN \E insert_ok \in BOOLEAN, reply_ok \in BOOLEAN :
              LET res == receive_bot_token(k[2], text, insert_ok, reply_ok) IN
              \* insert_one is reached by a shape-valid token only, and the
              \* success message only after an insert that returned
              /\ ~TokenShape(Strip(text)) => (insert_ok /\ reply_ok)
              /\ ~insert_ok => reply_ok
              /\ Len(cloned_bots) + Len(res.insert) <= MaxRecords
              /\ conversations' = [conversations EXCEPT ![k] = res.state]
              /\ cloned_bots' = cloned_bots \o res.insert
              /\ g_clone' = Handled("receive_bot_token", k, "text", text, res,
                                    insert_ok)
       ELSE \E outcome \in GenerationOutcomes :
              /\ g_clone' = Handled("chat_message", k, "text", text,
                                    chat_message(outcome), FALSE)
              /\ UNCHANGED << conversations, cloned_bots >>
    /\ UNCHANGED << db_collection, BOT_CONFIG, botVars, lm, runVars >>

\* /cancel: the fallback of the conversation handler, consulted only while the
\* key holds a state
CancelCommand(k) ==
    /\ IF conversations[k] = AWAITING_TOKEN
       THEN /\ conversations' = [conversations EXCEPT ![k] = cancel_clone.state]
            /\ g_clone' = Handled("cancel_clone", k, "cancel", << >>,
                                  cancel_clone, FALSE)
            /\ UNCHANGED cloned_bots
       ELSE Dropped(k, "cancel")
    /\ UNCHANGED << db_collection, BOT_CONFIG, botVars, lm, runVars >>

CloneInit ==
    /\ ConfigInit({1}, {1}, {1}, {{}})
    /\ lm = NoCall
    /\ BotInit
    /\ \E url_set \in BOOLEAN, ping_ok \in BOOLEAN :
           db_collection = initialize_mongodb(url_set, ping_ok)
    /\ conversations = [k \in Keys |-> END]
    /\ cloned_bots = << >>
    /\ g_clone = NoCloneUpdate

CloneNext ==
    \/ \E k \in Keys : CloneCommand(k)
    \/ \E k \in Keys, text \in CloneTexts : TextMessage(k, text)
    \/ \E k \in Keys : CancelCommand(k)

SpecClone == CloneInit /\ [][CloneNext]_vars

---------------------------------------------------------------------------
(* SpecSplit: send_long_message on every text and every max length *)

SplitInit ==
    /\ ConfigInit({1}, {1}, 1..MaxChunkLen, {{}})
    /\ lm \in { LM_Call(t) : t \in TextsUpTo(MaxTextLen) }
    /\ BotInit
    /\ CloneIdle

SplitIterate == LM_Iterate /\ UNCHANGED << BOT_CONFIG, botVars, cloneVars, runVars >>
SplitRaise   == LM_Raise   /\ UNCHANGED << BOT_CONFIG, botVars, cloneVars, runVars >>
SplitReturn  == LM_Return  /\ UNCHANGED << BOT_CONFIG, botVars, cloneVars, runVars >>

SplitNext == SplitIterate \/ SplitRaise \/ SplitReturn

SpecSplit == SplitInit /\ [][SplitNext]_vars

---------------------------------------------------------------------------
(* bot.py: rate_limit wrapper and handle_message *)

UserTexts == { << "h" >> }
Responses == { << >>, << "a", "b", "a" >> }

\* user_conversations[u] read through the defaultdict
Conv(u) == IF u \in DOMAIN user_conversations THEN user_conversations[u] ELSE << >>

\* mutation: all users share one list object
SetConv_Shared(u, log) ==
    [x \in DOMAIN user_conversations \cup {u} |-> log]

\* user_conversations[u] = log (the key is created when missing)
SetConv(u, log) ==
    [x \in DOMAIN user_conversations \cup {u} |->
        IF x = u THEN log ELSE user_conversations[x]]

\* mutation: an entry exactly one second old still counts (now - t <= 1)
InWindow_Inclusive(t, n) == n - t <= TicksPerSecond

\* now - t < 1, the window being one second
InWindow(t, n) == n - t < TicksPerSecond

\* [t for t in user_message_times[user_id] if now - t < 1]
ClearOld(times, n) == SelectSeq(times, LAMBDA t : InWindow(t, n))

\* mutation: the comparison is > instead of >=
LimitReached_OffByOne(times) == Len(times) > BOT_CONFIG.rate_limit_per_user

\* len(user_message_times[user_id]) >= BOT_CONFIG["rate_limit_per_user"]
LimitReached(times) == Len(times) >= BOT_CONFIG.rate_limit_per_user

\* mutation: the slice keeps the head (log[:n])
LastN_KeepsHead(log, n) == SubSeq(log, 1, Min(n, Len(log)))

\* log[-n:] for n >= 1
LastN(log, n) == SubSeq(log, Len(log) - Min(n, Len(log)) + 1, Len(log))

\* if len(log) > size: log = log[-size:]
Truncate(log) ==
    IF Len(log) > BOT_CONFIG.conversation_history_size
    THEN LastN(log, BOT_CONFIG.conversation_history_size)
    ELSE log

Turn(role, content) == [role |-> role, content |-> content]

\* user_conversations[user.id].append(user turn), then the truncation
AppendUserTurn(log, content) == Truncate(Append(log, Turn("user", content)))

\* user_conversations[user.id].append(assistant turn)
AppendAssistantTurn(log, content) == Append(log, Turn("assistant", content))

\* mutation: the blocklist is not consulted
IsBlocked_Nobody(u) == FALSE

\* str(user.id) in BOT_CONFIG["blocked_users"]
IsBlocked(u) == u \in BOT_CONFIG.blocked_users

\* mutation: updates are handled concurrently (concurrent_updates enabled)
DispatcherFree_Always == TRUE

\* the Application is built without concurrent_updates: the next update is
\* taken once the handler of the one before has returned
DispatcherFree == hm.pc = "idle"

\* mutation: the wrapper records the timestamp of a rejected event too
WindowOnReject_Records(pruned, n) == Append(pruned, n)

\* the window a rejected event leaves behind: the pruned list, now not appended
WindowOnReject(pruned, n) == pruned

\* A plain-text update reaches the wrapper of handle_message.  Up to the first
\* await that suspends, the wrapper prunes the window and either rejects
\* (notice, return) or records now and enters handle_message, which answers a
\* blocked user or appends the user turn and starts the generation call.
HandleMessage(u, text) ==
    /\ DispatcherFree
    /\ g_events < MaxEvents
    /\ g_events' = g_events + 1
    /\ LET pruned == ClearOld(user_message_times[u], now) IN
       IF LimitReached(pruned)
       THEN /\ user_message_times' =
                   [user_message_times EXCEPT ![u] = WindowOnReject(pruned, now)]
            /\ g_last' = [user |-> u, kind |-> "text", admitted |-> FALSE,
                          replies |-> << "rate_limit" >>]
            /\ g_rejected' = [g_rejected EXCEPT ![u] = @ + 1]
            /\ UNCHANGED << user_conversations, hm, g_accepted, g_appended >>
       ELSE /\ user_message_times' =
                   [user_message_times EXCEPT ![u] = Append(pruned, now)]
            /\ g_accepted' = [g_accepted EXCEPT ![u] = Append(@, now)]
            /\ UNCHANGED g_rejected
            /\ IF IsBlocked(u)
               THEN /\ g_last' = [user |-> u, kind |-> "text", admitted |-> TRUE,
                                  replies |-> << "blocked" >>]
                    /\ UNCHANGED << user_conversations, hm, g_appended >>
               ELSE /\ user_conversations' =
                           SetConv(u, AppendUserTurn(Conv(u), text))
                    /\ g_appended' =
                           [g_appended EXCEPT ![u] = Append(@, Turn("user", text))]
                    /\ hm' = [pc |-> "generating", user |-> u,
                              user_message |-> text, response |-> << >>]
                    /\ g_last' = [user |-> u, kind |-> "text", admitted |-> TRUE,
                                  replies |-> << >>]
    /\ g_broadcast' = NoBroadcast
    /\ UNCHANGED << now, BOT_CONFIG, lm, cloneVars, runVars >>

\* model.generate_content returns and response.text is r: send_long_message
\* is called with it
GenerateReturns(r) ==
    /\ hm.pc = "generating"
    /\ hm' = [hm EXCEPT !.pc = "sending", !.response = r]
    /\ lm' = LM_Call(r)
    /\ UNCHANGED << now, BOT_CONFIG, user_message_times, user_conversations,
                    g_accepted, g_rejected, g_appended, g_events, g_last, g_broadcast,
                    cloneVars, runVars >>

\* mutation: the except clause only logs
Apologise_Silent ==
    /\ hm' = [hm EXCEPT !.pc = "idle"]
    /\ g_last' = g_last

\* except Exception: the error is logged and the apology is sent
Apologise ==
    /\ hm' = [hm EXCEPT !.pc = "idle"]
    /\ g_last' = [g_last EXCEPT !.replies = Append(@, "apology")]

\* the generation call (or reading response.text) raises
GenerateFails ==
    /\ hm.pc = "generating"
    /\ Apologise
    /\ UNCHANGED << now, BOT_CONFIG, user_message_times, user_conversations, lm,
                    g_accepted, g_rejected, g_appended, g_events, g_broadcast, cloneVars, runVars >>

\* send_long_message sends the next segment
SendSegment ==
    /\ hm.pc = "sending"
    /\ LM_Iterate
    /\ UNCHANGED << BOT_CONFIG, botVars, cloneVars, runVars >>

\* sending a segment raises: the remaining segments are skipped
SendSegmentFails ==
    /\ hm.pc = "sending"
    /\ LM_Raise
    /\ Apologise
    /\ UNCHANGED << now, BOT_CONFIG, user_message_times, user_conversations,
                    g_accepted, g_rejected, g_appended, g_events, g_broadcast, cloneVars, runVars >>

\* send_long_message returns: the assistant turn is stored
StoreResponse ==
    /\ hm.pc = "sending"
    /\ LM_Return
    /\ user_conversations' =
           SetConv(hm.user, AppendAssistantTurn(Conv(hm.user), hm.response))
    /\ g_appended' = [g_appended EXCEPT
                        ![hm.user] = Append(@, Turn("assistant", hm.response))]
    /\ hm' = [hm EXCEPT !.pc = "idle"]
    /\ UNCHANGED << now, BOT_CONFIG, user_message_times,
                    g_accepted, g_rejected, g_events, g_last, g_broadcast, cloneVars, runVars >>

\* mutation: /clear empties the log of every user
ClearedConversations_All(u) ==
    [x \in DOMAIN user_conversations \cup {u} |-> << >>]

\* user_conversations[user_id] = []
ClearedConversations(u) == SetConv(u, << >>)

\* /clear
ClearHistory(u) ==
    /\ DispatcherFree
    /\ g_events < MaxEvents
    /\ g_events' = g_events + 1
    /\ user_conversations' = ClearedConversations(u)
    /\ g_appended' = [g_appended EXCEPT ![u] = << >>]
    /\ g_last' = [user |-> u, kind |-> "clear", admitted |-> TRUE,
                  replies |-> << "cleared" >>]
    /\ g_broadcast' = NoBroadcast
    /\ UNCHANGED << now, BOT_CONFIG, user_message_times, hm, lm,
                    g_accepted, g_rejected, cloneVars, runVars >>

\* config.py ADMIN_IDS: u1 is an admin, u2 is not
ADMIN_IDS == {"u1"}

\* mutation: everybody is an admin
is_admin_Anybody(user_id) == TRUE

\* user_id in ADMIN_IDS
is_admin(user_id) == user_id \in ADMIN_IDS

\* the commands setup_handlers registers a CommandHandler for
CommandHandlers == {"start", "help", "ping", "stats", "clear", "broadcast"}

\* the commands the /help text lists under "Admin Commands" and "(Admin only)"
AdminCommands == {"stats", "broadcast", "block", "unblock"}

\* the keys of a dict as the sequence a for loop visits
RECURSIVE KeysOf(_)
KeysOf(S) ==
    IF S = {} THEN << >>
    ELSE LET k == CHOOSE x \in S : TRUE IN << k >> \o KeysOf(S \ {k})

\* mutation: the first failed delivery ends the loop
RemainingAfterFailure_None(rest) == << >>

\* except Exception: the failure is logged and the loop goes on with the rest
RemainingAfterFailure(rest) == rest

\* for user_id in user_conversations.keys(): try send_message, count it;
\* failing is the set of users whose send_message raises
RECURSIVE BroadcastLoop(_, _, _)
BroadcastLoop(recipients, failing, acc) ==
    IF recipients = << >> THEN acc
    ELSE LET user_id == Head(recipients) IN
         IF user_id \in failing
         THEN BroadcastLoop(RemainingAfterFailure(Tail(recipients)), failing,
                            [acc EXCEPT !.attempted = Append(@, user_id)])
         ELSE BroadcastLoop(Tail(recipients), failing,
                            [acc EXCEPT !.attempted = Append(@, user_id),
                                        !.delivered = Append(@, user_id),
                                        !.broadcast_count = @ + 1])

\* /broadcast with or without arguments
Broadcast(u, has_args, failing) ==
    /\ DispatcherFree
    /\ g_events < MaxEvents
    /\ g_events' = g_events + 1
    /\ IF ~is_admin(u)
       THEN /\ g_last' = [user |-> u, kind |-> "broadcast", admitted |-> FALSE,
                          replies |-> << "not_admin" >>]
            /\ g_broadcast' = NoBroadcast
       ELSE IF ~has_args
       THEN /\ g_last' = [user |-> u, kind |-> "broadcast", admitted |-> TRUE,
                          replies |-> << "usage" >>]
            /\ g_broadcast' = NoBroadcast
       ELSE /\ g_last' = [user |-> u, kind |-> "broadcast", admitted |-> TRUE,
                          replies |-> << "broadcast_report" >>]
            /\ g_broadcast' = BroadcastLoop(KeysOf(DOMAIN user_conversations),
                                            failing, NoBroadcast)
    /\ UNCHANGED << now, BOT_CONFIG, user_message_times, user_conversations,
                    hm, lm, g_accepted, g_rejected, g_appended, cloneVars, runVars >>

\* /stats
StatsCommand(u) ==
    /\ DispatcherFree
    /\ g_events < MaxEvents
    /\ g_events' = g_events + 1
    /\ g_last' = [user |-> u, kind |-> "stats", admitted |-> is_admin(u),
                  replies |-> IF is_admin(u) THEN << "stats" >>
                                            ELSE << "not_admin" >>]
    /\ g_broadcast' = NoBroadcast
    /\ UNCHANGED << now, BOT_CONFIG, user_message_times, user_conversations,
                    hm, lm, g_accepted, g_rejected, g_appended, cloneVars, runVars >>

\* a command with no CommandHandler: the text handler excludes commands
\* (filters.TEXT & ~filters.COMMAND), so no handler takes the update
UnhandledCommand(u, c) ==
    /\ c \notin CommandHandlers
    /\ DispatcherFree
    /\ g_events < MaxEvents
    /\ g_events' = g_events + 1
    /\ g_last' = [user |-> u, kind |-> c, admitted |-> FALSE, replies |-> << >>]
    /\ g_broadcast' = NoBroadcast
    /\ UNCHANGED << now, BOT_CONFIG, user_message_times, user_conversations,
                    hm, lm, g_accepted, g_rejected, g_appended, cloneVars, runVars >>

\* time passes
Tick ==
    /\ now < MaxTime
    /\ now' = now + 1
    /\ UNCHANGED << BOT_CONFIG, user_message_times, user_conversations, hm, lm,
                    g_accepted, g_rejected, g_appended, g_events, g_last, g_broadcast,
                    cloneVars, runVars >>

Init ==
    /\ ConfigInit({MaxLimit}, {MaxHistorySize}, {MaxChunkLen}, {{}, {"u2"}})
    /\ lm = NoCall
    /\ BotInit
    /\ CloneIdle

Next ==
    \/ \E u \in Users, text \in UserTexts : HandleMessage(u, text)
    \/ \E r \in Responses : GenerateReturns(r)
    \/ GenerateFails
    \/ SendSegment
    \/ SendSegmentFails
    \/ StoreResponse
    \/ \E u \in Users : ClearHistory(u)
    \/ Tick

Spec == Init /\ [][Next]_vars

\* the dispatcher with the admin commands as well
AdminNext ==
    \/ Next
    \/ \E u \in Users, has_args \in BOOLEAN, failing \in SUBSET Users :
           Broadcast(u, has_args, failing)
    \/ \E u \in Users : StatsCommand(u)
    \/ \E u \in Users, c \in AdminCommands : UnhandledCommand(u, c)

SpecAdmin == Init /\ [][AdminNext]_vars

---------------------------------------------------------------------------
(* bot.py: run_bot, the restart loop.  SpecRun runs it alone. *)

\* max_retries = 5
max_retries == 5

\* mutation: the loop gives up one failure early
LoopContinues_OneLess(retry_count) == retry_count < max_retries - 1

\* while retry_count < max_retries
LoopContinues(retry_count) == retry_count < max_retries

\* if retry_count < max_retries (inside except Exception)
ShouldRestart(retry_count) == retry_count < max_retries

\* where control goes when the finally block is over
AfterFinally(exit) ==
    CASE exit = "continue" -> "test"
      [] exit = "break"    -> "done"
      [] OTHER             -> "interrupted"

\* main() calls run_bot: retry_count = 0
RunBotCalled ==
    /\ rb.pc = "entry"
    /\ rb' = [rb EXCEPT !.pc = "test", !.retry_count = 0]
    /\ UNCHANGED << BOT_CONFIG, botVars, lm, cloneVars, g_run >>

\* the test of the while loop: a new start attempt, or the end of run_bot
LoopTest ==
    /\ rb.pc = "test"
    /\ IF LoopContinues(rb.retry_count)
       THEN /\ rb' = [rb EXCEPT !.pc = "verify", !.exit = "-"]
            /\ g_run' = [g_run EXCEPT !.attempts = @ + 1,
                                      !.restarts = @ + (IF g_run.failures > 0
                                                        THEN 1 ELSE 0)]
       ELSE /\ rb' = [rb EXCEPT !.pc = "done"]
            /\ UNCHANGED g_run
    /\ UNCHANGED << BOT_CONFIG, botVars, lm, cloneVars >>

\* both verifications are awaited, then all([...]) decides: ConnectionError
\* unless both returned True
VerifyConnections(telegram_ok, gemini_ok) ==
    /\ rb.pc = "verify"
    /\ rb' = [rb EXCEPT !.telegram_ok = telegram_ok, !.gemini_ok = gemini_ok,
                        !.pc = IF telegram_ok /\ gemini_ok THEN "create"
                                                           ELSE "except"]
    /\ UNCHANGED << BOT_CONFIG, botVars, lm, cloneVars, g_run >>

\* application = create_application(); setup_handlers(application)
CreateApplication ==
    /\ rb.pc = "create"
    /\ rb' = [rb EXCEPT !.application = "built", !.pc = "initialize"]
    /\ UNCHANGED << BOT_CONFIG, botVars, lm, cloneVars, g_run >>

\* await application.initialize()
InitializeApplication ==
    /\ rb.pc = "initialize"
    /\ rb' = [rb EXCEPT !.application = "initialized", !.pc = "start"]
    /\ UNCHANGED << BOT_CONFIG, botVars, lm, cloneVars, g_run >>

\* await application.start(), then the keep-alive loop
StartApplication ==
    /\ rb.pc = "start"
    /\ rb' = [rb EXCEPT !.application = "started", !.pc = "running"]
    /\ UNCHANGED << BOT_CONFIG, botVars, lm, cloneVars, g_run >>

\* a startup call raises an Exception
StartupFails ==
    /\ rb.pc \in {"create", "initialize", "start"}
    /\ rb' = [rb EXCEPT !.pc = "except"]
    /\ UNCHANGED << BOT_CONFIG, botVars, lm, cloneVars, g_run >>

\* an Exception is raised inside the keep-alive loop
RunningFails ==
    /\ rb.pc = "running"
    /\ rb' = [rb EXCEPT !.pc = "except"]
    /\ UNCHANGED << BOT_CONFIG, botVars, lm, cloneVars, g_run >>

\* the task is cancelled (KeyboardInterrupt): a BaseException, which
\* except Exception does not catch; the finally block runs and it propagates
Interrupted ==
    /\ rb.pc \in {"running", "sleep"}
    /\ rb' = [rb EXCEPT !.pc = "finally", !.exit = "raise"]
    /\ UNCHANGED << BOT_CONFIG, botVars, lm, cloneVars, g_run >>

\* except Exception: retry_count += 1, then sleep 10 s or break
ExceptClause ==
    /\ rb.pc = "except"
    /\ LET c == rb.retry_count + 1 IN
       rb' = [rb EXCEPT !.retry_count = c,
                        !.pc = IF ShouldRestart(c) THEN "sleep" ELSE "finally",
                        !.exit = IF ShouldRestart(c) THEN "-" ELSE "break"]
    /\ g_run' = [g_run EXCEPT !.failures = @ + 1]
    /\ UNCHANGED << BOT_CONFIG, botVars, lm, cloneVars >>

\* await asyncio.sleep(10) returns
SleepOver ==
    /\ rb.pc = "sleep"
    /\ rb' = [rb EXCEPT !.pc = "finally", !.exit = "continue"]
    /\ UNCHANGED << BOT_CONFIG, botVars, lm, cloneVars, g_run >>

\* finally: application.stop(); it raises when the name is unbound or the
\* application is not running, which the bare except swallows
FinallyStop ==
    /\ rb.pc = "finally"
    /\ IF rb.application = "started"
       THEN rb' = [rb EXCEPT !.application = "stopped", !.pc = "finally_shutdown"]
       ELSE rb' = [rb EXCEPT !.pc = AfterFinally(rb.exit)]
    /\ UNCHANGED << BOT_CONFIG, botVars, lm, cloneVars, g_run >>

\* finally: application.shutdown()
FinallyShutdown ==
    /\ rb.pc = "finally_shutdown"
    /\ rb' = [rb EXCEPT !.application = "shutdown", !.pc = AfterFinally(rb.exit)]
    /\ UNCHANGED << BOT_CONFIG, botVars, lm, cloneVars, g_run >>

RunNext ==
    \/ RunBotCalled
    \/ LoopTest
    \/ \E telegram_ok \in BOOLEAN, gemini_ok \in BOOLEAN :
           VerifyConnections(telegram_ok, gemini_ok)
    \/ CreateApplication
    \/ InitializeApplication
    \/ StartApplication
    \/ StartupFails
    \/ RunningFails
    \/ Interrupted
    \/ ExceptClause
    \/ SleepOver
    \/ FinallyStop
    \/ FinallyShutdown

SpecRun == Init /\ [][RunNext]_vars

---------------------------------------------------------------------------
(* Claims about send_long_message, checked under SpecSplit *)

CeilDiv(a, b) == (a + b - 1) \div b

\* C4: when send_long_message returns, the segments it sent, concatenated in
\* send order, are exactly the text, for every text (the empty text and exact
\* multiples of max_len included) and every positive max_len.
C4_ConcatReconstructsText ==
    lm.pc = "returned" => Concat(lm.sent) = lm.text

\* C4 witness: a text whose length is an exact multiple of max_len went out
\* in at least two segments.
C4_Witness ==
    /\ lm.pc = "returned"
    /\ Len(lm.sent) >= 2
    /\ Len(lm.text) = Len(lm.sent) * BOT_CONFIG.max_message_length

\* C5: every segment sent has length 1..max_len; a call that returns has sent
\* ceil(len(text)/max_len) segments; the empty text sends nothing.
C5_SegmentLengthAndCount ==
    /\ \A k \in DOMAIN lm.sent :
           Len(lm.sent[k]) \in 1..BOT_CONFIG.max_message_length
    /\ lm.pc = "returned" =>
           Len(lm.sent) = CeilDiv(Len(lm.text), BOT_CONFIG.max_message_length)
    /\ lm.text = << >> => lm.sent = << >>

\* C5 witness: a text whose length is no multiple of max_len went out in at
\* least two segments, the last one shorter than max_len.
C5_Witness ==
    /\ lm.pc = "returned"
    /\ Len(lm.sent) >= 2
    /\ Len(lm.sent[Len(lm.sent)]) < BOT_CONFIG.max_message_length

\* the empty text: the call returned after zero sends
C5_EmptyTextReached ==
    lm.pc = "returned" /\ lm.text = << >> /\ lm.sent = << >>

---------------------------------------------------------------------------
(* Claims about the rate limiter and the conversation log, checked under Spec *)

\* the events of user u that the limiter accepted in the window ending at T
AcceptedInWindow(u, T) ==
    { i \in DOMAIN g_accepted[u] :
          g_accepted[u][i] <= T /\ T - g_accepted[u][i] < TicksPerSecond }

\* C1: for every user and every instant T, the number of events the limiter
\* accepted in the one-second window ending at T is at most the configured
\* rate_limit_per_user (timestamps never decrease).
C1_AcceptedPerWindowWithinLimit ==
    \A u \in Users : \A T \in 0..MaxTime :
        Cardinality(AcceptedInWindow(u, T)) <= BOT_CONFIG.rate_limit_per_user

\* C1 witness: an event was rejected while the window held exactly the limit,
\* and the same user had been accepted after an earlier entry aged out.
C1_Witness ==
    \E u \in Users :
        /\ g_last.user = u /\ g_last.kind = "text" /\ ~g_last.admitted
        /\ Cardinality(AcceptedInWindow(u, now)) = BOT_CONFIG.rate_limit_per_user
        /\ Len(g_accepted[u]) > BOT_CONFIG.rate_limit_per_user

\* C2 (as claimed): every conversation log holds at most
\* conversation_history_size turns after every mutation, the append of the
\* assistant turn included.
C2_LogWithinCap ==
    \A u \in DOMAIN user_conversations :
        Len(user_conversations[u]) <= BOT_CONFIG.conversation_history_size

\* C3: every conversation log is a contiguous suffix, in arrival order, of the
\* turns appended for that user since the last clear.
C3_LogIsSuffixOfAppended ==
    \A u \in Users :
        LET log == Conv(u)
            all == g_appended[u]
        IN  /\ Len(log) <= Len(all)
            /\ log = SubSeq(all, Len(all) - Len(log) + 1, Len(all))

\* C3 witness: the truncation has evicted turns of a log that holds turns of
\* both roles and of different content.
C3_Witness ==
    \E u \in Users :
        /\ 0 < Len(Conv(u)) /\ Len(Conv(u)) < Len(g_appended[u])
        /\ \E i, j \in DOMAIN g_appended[u] :
               /\ g_appended[u][i].role = "assistant"
               /\ g_appended[u][j].role = "assistant"
               /\ g_appended[u][i].content # g_appended[u][j].content

---------------------------------------------------------------------------
(* Claims about the clone dialogue, checked under SpecClone *)

\* the last update was a plain text handled by receive_bot_token
TokenReceived == g_clone.handler = "receive_bot_token"

\* the text of the last update, trimmed, has the token shape
ShapeValid ==
    LET t == Strip(g_clone.text) IN Len(t) > TokenMinLength /\ ":" \in Range(t)

\* C6: with the store accepting the insert, a shape-valid text received in
\* AwaitingToken (which only /clone enters) inserts exactly one document, owned
\* by the sender and holding the trimmed token, and the dialogue is back at Idle.
\* The shape is judged on the trimmed text, as receive_bot_token judges it.
C6_ValidTokenRegistersOnce ==
    (TokenReceived /\ ShapeValid /\ g_clone.insert_ok) =>
        /\ g_clone.pre = "AwaitingToken"
        /\ g_clone.inserted = 1
        /\ cloned_bots # << >>
        /\ cloned_bots[Len(cloned_bots)].cloner_telegram_id = g_clone.key[2]
        /\ cloned_bots[Len(cloned_bots)].bot_token = Strip(g_clone.text)
        /\ conversations[g_clone.key] = "Idle"

\* C6 witness: a token sent with surrounding whitespace was registered and the
\* success message delivered.
C6_Witness ==
    /\ TokenReceived /\ ShapeValid /\ g_clone.insert_ok
    /\ g_clone.text # Strip(g_clone.text)
    /\ g_clone.replies = << "registered" >>
    /\ g_clone.inserted = 1

\* C7: in AwaitingToken a text whose trimmed length is at most 30, or that holds
\* no ':', leaves the dialogue at AwaitingToken, inserts nothing and re-prompts.
C7_InvalidTokenStays ==
    LET t == Strip(g_clone.text) IN
    (TokenReceived /\ (Len(t) <= TokenMinLength \/ ":" \notin Range(t))) =>
        /\ conversations[g_clone.key] = "AwaitingToken"
        /\ g_clone.inserted = 0
        /\ g_clone.replies = << "invalid_token" >>

\* C7 witness: the third consecutive invalid text of one dialogue, a text of
\* exactly 30 characters with the delimiter.
C7_Witness ==
    /\ TokenReceived
    /\ g_clone.streak >= 3
    /\ Len(Strip(g_clone.text)) = TokenMinLength
    /\ ":" \in Range(g_clone.text)
    /\ conversations[g_clone.key] = "AwaitingToken"

\* C8: /cancel in AwaitingToken returns the dialogue to Idle and inserts
\* nothing, and a plain text that follows it is handled by chat_message, the
\* generation path, and inserts nothing either.
C8_CancelReturnsToIdle ==
    /\ g_clone.handler = "cancel_clone" =>
           /\ g_clone.pre = "AwaitingToken"
           /\ conversations[g_clone.key] = "Idle"
           /\ g_clone.inserted = 0
           /\ g_clone.replies = << "cancelled" >>
    /\ (g_clone.prev = "cancel_clone" /\ g_clone.event = "text") =>
           /\ g_clone.handler = "chat_message"
           /\ g_clone.inserted = 0
           /\ conversations[g_clone.key] = "Idle"

\* C8 witness: right after a /cancel, a shape-valid token of the same user and
\* chat was answered by the generation path.
C8_Witness ==
    /\ g_clone.prev = "cancel_clone"
    /\ g_clone.event = "text"
    /\ ShapeValid
    /\ g_clone.handler = "chat_message"

\* C9: when the insert of a shape-valid token fails, the dialogue ends at Idle,
\* the failure notice is sent and no document was inserted.
C9_InsertFailureEndsDialogue ==
    (TokenReceived /\ ShapeValid /\ ~g_clone.insert_ok) =>
        /\ conversations[g_clone.key] = "Idle"
        /\ g_clone.replies = << "register_error" >>
        /\ g_clone.inserted = 0

\* C9 witness: an insert failed with a document of an earlier registration in
\* the store.
C9_Witness ==
    /\ TokenReceived /\ ShapeValid /\ ~g_clone.insert_ok
    /\ Len(cloned_bots) = 1

---------------------------------------------------------------------------
(* Claims about rejected and failed plain-text events, checked under Spec *)

\* the step dispatches a plain-text update of user u
TextStep(u) ==
    /\ g_events' = g_events + 1
    /\ g_last'.kind = "text"
    /\ g_last'.user = u

\* xs is a suffix of ys
IsSuffix(xs, ys) ==
    /\ Len(xs) <= Len(ys)
    /\ xs = SubSeq(ys, Len(ys) - Len(xs) + 1, Len(ys))

UserTurns(u) ==
    Cardinality({ i \in DOMAIN g_appended[u] : g_appended[u][i].role = "user" })

C12_GenerationFailureApologises ==
    [][(hm.pc = "generating" /\ hm'.pc = "idle") =>
          /\ g_last'.user = hm.user
          /\ g_last'.replies = Append(g_last.replies, "apology")
          /\ user_conversations' = user_conversations
          /\ g_appended' = g_appended
          /\ Conv(hm.user)[Len(Conv(hm.user))] = Turn("user", hm.user_message)
      ]_vars

\* C12 witness: the first generation call of a run failed; the user got the
\* apology and the log holds the user turn alone.
C12_Witness ==
    /\ hm.pc = "idle" /\ hm.user \in Users
    /\ lm = NoCall
    /\ g_last.kind = "text" /\ g_last.user = hm.user
    /\ g_last.replies = << "apology" >>
    /\ Conv(hm.user) = << Turn("user", hm.user_message) >>

---------------------------------------------------------------------------
(* Claims about the admin commands, checked under SpecAdmin *)

\* the elements of a sequence
Elems(xs) == { xs[i] : i \in DOMAIN xs }

\* C13: a /broadcast (with or without arguments) of a user outside ADMIN_IDS
\* is answered with the admins-only notice and delivers nothing to anybody.
C13_NonAdminBroadcastSendsNothing ==
    (g_last.kind = "broadcast" /\ g_last.user \notin ADMIN_IDS) =>
        /\ g_last.replies = << "not_admin" >>
        /\ g_broadcast.attempted = << >>
        /\ g_broadcast.delivered = << >>

\* C13 witness: a user who is no admin sent /broadcast while another user was
\* among the known users.
C13_Witness ==
    /\ g_last.kind = "broadcast"
    /\ g_last.user \notin ADMIN_IDS
    /\ g_last.replies = << "not_admin" >>
    /\ (DOMAIN user_conversations) \ {g_last.user} # {}

\* C14: an admin's /broadcast with a message attempts one delivery to every
\* key of user_conversations, whatever deliveries fail, and reports to the
\* admin the number of users whose delivery succeeded.
C14_BroadcastReachesEveryKnownUser ==
    (g_last.kind = "broadcast" /\ g_last.replies = << "broadcast_report" >>) =>
        /\ g_last.user \in ADMIN_IDS
        /\ Elems(g_broadcast.attempted) = DOMAIN user_conversations
        /\ Len(g_broadcast.attempted) = Cardinality(DOMAIN user_conversations)
        /\ Elems(g_broadcast.delivered) \subseteq Elems(g_broadcast.attempted)
        /\ g_broadcast.broadcast_count = Cardinality(Elems(g_broadcast.delivered))
        /\ g_broadcast.broadcast_count = Len(g_broadcast.delivered)

\* C14 witness: of two known users the first delivery failed and the second
\* succeeded; the admin was told 1.
C14_Witness ==
    /\ g_last.kind = "broadcast"
    /\ g_last.replies = << "broadcast_report" >>
    /\ Len(g_broadcast.attempted) = 2
    /\ g_broadcast.delivered = << g_broadcast.attempted[2] >>
    /\ g_broadcast.broadcast_count = 1

\* C15 (as claimed): each of the admin commands stats, broadcast, block and
\* unblock, sent by a user outside ADMIN_IDS, is answered with the admins-only
\* notice.
C15_AdminCommandsAnswerNonAdmins ==
    (g_last.kind \in AdminCommands /\ g_last.user \notin ADMIN_IDS) =>
        g_last.replies = << "not_admin" >>

---------------------------------------------------------------------------
(* Claims about the generation pipeline, checked under Spec *)

\* C16 (as claimed): a generation that succeeds with the empty text is never
\* handled by sending nothing and recording an empty assistant turn: no log
\* holds an assistant turn of empty content, and a handler that got the empty
\* text ends with a reply to the user.
C16_EmptyCompletionReported ==
    /\ \A u \in DOMAIN user_conversations :
           \A i \in DOMAIN user_conversations[u] :
               user_conversations[u][i] # Turn("assistant", << >>)
    /\ (hm.pc = "idle" /\ lm.pc = "returned" /\ lm.text = << >>
            /\ g_last.kind = "text" /\ g_last.admitted /\ g_last.user = hm.user
            /\ Conv(hm.user) # << >>
            /\ Conv(hm.user)[Len(Conv(hm.user))].role = "assistant") =>
           g_last.replies # << >>

---------------------------------------------------------------------------
(* Claims about the restart loop, checked under SpecRun *)

\* the positions inside the try block and its except clause's entry
AttemptPcs == {"verify", "create", "initialize", "start", "running", "except"}

\* C17: run_bot makes at most max_retries start attempts.  Every failure short
\* of the maximum is followed by a new attempt (inside an attempt the attempts
\* are one more than the failures), and once max_retries failures are counted
\* no attempt follows: the loop is left by break and run_bot returns, which it
\* does only then.
C17_RestartsAreBounded ==
    /\ g_run.attempts <= max_retries
    /\ rb.retry_count = g_run.failures
    /\ rb.pc \in AttemptPcs =>
           /\ g_run.attempts = g_run.failures + 1
           /\ g_run.restarts = g_run.failures
    /\ rb.pc \in {"sleep", "test"} => g_run.failures < max_retries
    /\ g_run.failures = max_retries =>
           /\ rb.pc \in {"finally", "finally_shutdown", "done"}
           /\ rb.exit = "break"
    /\ rb.pc = "done" =>
           /\ g_run.failures = max_retries
           /\ g_run.attempts = max_retries

\* C17 witness: run_bot returned after five failures, one of which followed a
\* successful start (the application was started, then stopped and shut down).
C17_Witness ==
    /\ rb.pc = "done"
    /\ g_run.failures = max_retries
    /\ g_run.restarts = max_retries - 1
    /\ rb.application = "shutdown"

---------------------------------------------------------------------------
(* Claims about the order of the gates of a plain-text event, under Spec *)

\* C18 (as claimed): the blocklist check comes before the rate-limit gate: the
\* plain text of a blocked user is always answered with the blocked notice,
\* that user's window is never written, and no turn of that user is appended
\* nor a generation started.
C18_BlocklistBeforeRateLimit ==
    \A u \in BOT_CONFIG.blocked_users :
        /\ user_message_times[u] = << >>
        /\ g_accepted[u] = << >>
        /\ (g_last.user = u /\ g_last.kind = "text") =>
               g_last.replies = << "blocked" >>
        /\ g_appended[u] = << >> /\ Conv(u) = << >>
        /\ hm.user # u

\* C18 (amended): the rate-limit gate comes before the blocklist check.  The
\* plain text of a blocked user that the limiter admits is answered with the
\* blocked notice and its timestamp is recorded in the user's window; one that
\* the limiter rejects is answered with the rate-limit notice.  Neither reaches
\* the history append or the generation.
C18_RateLimitBeforeBlocklist ==
    \A u \in BOT_CONFIG.blocked_users :
        /\ (g_last.user = u /\ g_last.kind = "text") =>
               \/ /\ g_last.admitted
                  /\ g_last.replies = << "blocked" >>
                  /\ user_message_times[u] # << >>
                  /\ user_message_times[u][Len(user_message_times[u])]
                         = g_accepted[u][Len(g_accepted[u])]
               \/ /\ ~g_last.admitted
                  /\ g_last.replies = << "rate_limit" >>
                  /\ Len(user_message_times[u]) >= BOT_CONFIG.rate_limit_per_user
        /\ g_appended[u] = << >> /\ Conv(u) = << >>
        /\ hm.user # u

\* C18 witness: a blocked user filled the window with admitted texts and the
\* next text was answered with the rate-limit notice.
C18_Witness ==
    \E u \in BOT_CONFIG.blocked_users :
        /\ g_last.user = u /\ g_last.kind = "text" /\ ~g_last.admitted
        /\ g_last.replies = << "rate_limit" >>
        /\ Len(user_message_times[u]) = BOT_CONFIG.rate_limit_per_user

---------------------------------------------------------------------------
(* Claims about the routing of plain text in main.py, checked under SpecClone *)

---------------------------------------------------------------------------
(* Claims about concurrent users, checked under Spec *)

\* C20 (as claimed): while the generation call of one user is in flight, a
\* plain text of any other user can be taken up by the dispatcher (as long as
\* the run has updates left).
C20_OtherUserServedDuringGeneration ==
    (hm.pc = "generating" /\ g_events < MaxEvents) =>
        \A u \in Users \ {hm.user} :
            ENABLED (\E text \in UserTexts : HandleMessage(u, text))

---------------------------------------------------------------------------
(* Claims about the order of one user's messages, checked under Spec *)

\* the last element of a non-empty sequence
Last(xs) == xs[Len(xs)]

\* C21: messages of one user are processed to completion in receipt order.
\* A user turn is appended only when no handler is in flight, so the turns of
\* the message before (user turn and, on success, assistant turn) are already
\* in the log; an assistant turn is appended by the handler in flight, right
\* after the user turn of its own message.
C21_MessagesCompleteInReceiptOrder ==
    /\ [](\A u \in Users : \A i \in DOMAIN g_appended[u] :
              g_appended[u][i].role = "assistant" =>
                  i > 1 /\ g_appended[u][i - 1].role = "user")
    /\ [][\A u \in Users :
            (g_appended'[u] # g_appended[u] /\ g_appended'[u] # << >>) =>
              LET t == Last(g_appended'[u]) IN
              /\ g_appended'[u] = Append(g_appended[u], t)
              /\ t.role = "user" =>
                   /\ hm.pc = "idle"
                   /\ hm'.pc = "generating" /\ hm'.user = u
                   /\ hm'.user_message = t.content
              /\ t.role = "assistant" =>
                   /\ hm.pc = "sending" /\ hm.user = u
                   /\ Last(g_appended[u]) = Turn("user", hm.user_message)
                   /\ t.content = hm.response
                   /\ hm'.pc = "idle"
          ]_vars

\* C21 witness: two messages of one user were both answered; the log of
\* appended turns reads user, assistant, user, assistant.
C21_Witness ==
    \E u \in Users :
        /\ Len(g_appended[u]) = 4
        /\ g_appended[u][1].role = "user" /\ g_appended[u][2].role = "assistant"
        /\ g_appended[u][3].role = "user" /\ g_appended[u][4].role = "assistant"
        /\ g_appended[u][2].content # g_appended[u][4].content
        /\ hm.pc = "idle"

---------------------------------------------------------------------------
(* Claims about the limiter's memory of rejections, checked under Spec *)

\* C22: the limiter imposes no penalty beyond the window.  A plain-text event
\* read at now is accepted whenever fewer than rate_limit_per_user accepted
\* events of its user have a timestamp t with now - t < 1 second, however many
\* events of that user were rejected before; the window never holds a
\* rejected event's timestamp nor more than the limit.
C22_NoPenaltyBeyondWindow ==
    /\ [](\A u \in Users :
              /\ Len(user_message_times[u]) <= BOT_CONFIG.rate_limit_per_user
              /\ \A i \in DOMAIN user_message_times[u] :
                     \E j \in DOMAIN g_accepted[u] :
                         g_accepted[u][j] = user_message_times[u][i])
    /\ [][\A u \in Users :
            (TextStep(u) /\ Cardinality(AcceptedInWindow(u, now))
                                < BOT_CONFIG.rate_limit_per_user) =>
              /\ g_last'.admitted
              /\ g_accepted'[u] = Append(g_accepted[u], now)
              /\ g_rejected'[u] = g_rejected[u]
          ]_vars

\* C22 witness: a user who had been rejected with a full window was accepted
\* at the very tick the counted timestamps became one second old.
C22_Witness ==
    \E u \in Users :
        /\ g_rejected[u] > 0
        /\ g_last.user = u /\ g_last.kind = "text" /\ g_last.admitted
        /\ Len(g_accepted[u]) = BOT_CONFIG.rate_limit_per_user + 1
        /\ \A i \in 1..BOT_CONFIG.rate_limit_per_user :
               now - g_accepted[u][i] = TicksPerSecond
        /\ Last(g_accepted[u]) = now

---------------------------------------------------------------------------
(* Claims about the delivery of one reply, checked under Spec *)

\* the k-th slice of max_len characters of text
NthSlice(text, k, max_len) ==
    SubSeq(text, (k - 1) * max_len + 1, Min(k * max_len, Len(text)))

\* C23: the segments of a reply go out in order (what was sent so far is the
\* reply's first slices, in order); a failing send ends the handler with the
\* apology to the user and without an assistant turn; and the assistant turn
\* is appended only after every segment of the reply was sent.
C23_SegmentsInOrderThenTurn ==
    /\ [](\A k \in DOMAIN lm.sent :
              lm.sent[k] = NthSlice(lm.text, k, BOT_CONFIG.max_message_length))
    /\ [][(lm.pc = "loop" /\ lm'.pc = "raised") =>
            /\ g_last'.user = hm.user
            /\ g_last'.replies = Append(g_last.replies, "apology")
            /\ hm'.pc = "idle"
            /\ user_conversations' = user_conversations
            /\ g_appended' = g_appended
         ]_vars
    /\ [][(hm.pc = "sending" /\ g_appended' # g_appended) =>
            /\ g_appended'[hm.user] =
                   Append(g_appended[hm.user], Turn("assistant", hm.response))
            /\ lm.text = hm.response
            /\ lm'.pc = "returned"
            /\ Len(lm.sent) =
                   CeilDiv(Len(hm.response), BOT_CONFIG.max_message_length)
            /\ g_last'.replies = g_last.replies
         ]_vars

\* C23 witness: the second segment of a reply failed after the first had been
\* delivered; the user got the apology and the log ends with the user turn.
C23_Witness ==
    /\ lm.pc = "raised"
    /\ Len(lm.sent) = 1
    /\ Len(lm.text) > BOT_CONFIG.max_message_length
    /\ hm.pc = "idle" /\ g_last.user = hm.user
    /\ g_last.replies = << "apology" >>
    /\ Last(Conv(hm.user)) = Turn("user", hm.user_message)

---------------------------------------------------------------------------
(* Claims about /clear and about isolation between users, checked under Spec *)

\* the step dispatches a /clear of user u
ClearStep(u) ==
    /\ g_events' = g_events + 1
    /\ g_last'.kind = "clear"
    /\ g_last'.user = u

\* C24: a /clear of user u leaves u's log empty (the key present), the log
\* of every other user and the window of every user as they were, and is
\* answered; an empty log stays empty until an admitted plain text of its user.
C24_ClearEmptiesOnlyOwnLog ==
    /\ [][\A u \in Users :
            ClearStep(u) =>
              /\ u \in DOMAIN user_conversations'
              /\ user_conversations'[u] = << >>
              /\ \A v \in Users \ {u} :
                     /\ v \in DOMAIN user_conversations' <=>
                            v \in DOMAIN user_conversations
                     /\ v \in DOMAIN user_conversations =>
                            user_conversations'[v] = user_conversations[v]
              /\ user_message_times' = user_message_times
              /\ hm' = hm
              /\ g_last'.replies = << "cleared" >>
          ]_vars
    /\ [][\A u \in Users :
            (Conv(u) = << >> /\ user_conversations' # user_conversations
                 /\ u \in DOMAIN user_conversations'
                 /\ user_conversations'[u] # << >>) =>
              /\ TextStep(u) /\ g_last'.admitted
              /\ user_conversations'[u] = << Turn("user", hm'.user_message) >>
          ]_vars

\* C24 witness: with nobody blocked, a user whose text had been admitted (and
\* its turn appended) sent /clear while the other user's log held turns and
\* both windows held timestamps.
C24_Witness ==
    \E u \in Users : \E v \in Users \ {u} :
        /\ BOT_CONFIG.blocked_users = {}
        /\ g_last.kind = "clear" /\ g_last.user = u
        /\ Conv(u) = << >> /\ g_accepted[u] # << >>
        /\ Conv(v) # << >>
        /\ user_message_times[u] # << >> /\ user_message_times[v] # << >>

---------------------------------------------------------------------------
(* Claims about the outcome message of the clone dialogue, under SpecClone *)

\* C25 (as claimed): the outcome message matches the store: the success
\* message is sent only when the attempt inserted a document, and the
\* registration error message only when the attempt inserted none.
C25_OutcomeMessageMatchesStore ==
    TokenReceived =>
        /\ "registered" \in Range(g_clone.replies) => g_clone.inserted = 1
        /\ "register_error" \in Range(g_clone.replies) => g_clone.inserted = 0

\* the user on whose behalf a step acts: the sender of the update it
\* dispatches, or else the user of the handler in flight
Actor == IF g_events' # g_events THEN g_last'.user ELSE hm.user

\* C26: a step taken for one user (plain text admitted or rejected, /clear,
\* generation returning or failing, sending, storing) leaves the log and the
\* window of every other user as they were; and when the generation call
\* fails, the user turn appended before it stays the last turn of the log.
C26_UsersAreIsolated ==
    /\ [][\A v \in Users \ {Actor} :
            /\ user_message_times'[v] = user_message_times[v]
            /\ v \in DOMAIN user_conversations' <=> v \in DOMAIN user_conversations
            /\ Conv(v) = IF v \in DOMAIN user_conversations'
                         THEN user_conversations'[v] ELSE << >>
         ]_vars
    /\ [](hm.pc = "generating" =>
              Last(Conv(hm.user)) = Turn("user", hm.user_message))
    /\ [][(hm.pc = "generating" /\ hm'.pc = "idle") =>
            /\ user_conversations'[hm.user] = user_conversations[hm.user]
            /\ Last(user_conversations'[hm.user]) = Turn("user", hm.user_message)
         ]_vars

\* C26 witness: the generation call of one user failed while the other user
\* had a log and a window; the failed user's log ends with the user turn.
C26_Witness ==
    \E u \in Users : \E v \in Users \ {u} :
        /\ hm.pc = "idle" /\ hm.user = u
        /\ g_last.user = u /\ g_last.kind = "text"
        /\ g_last.replies = << "apology" >>
        /\ lm.pc = "returned"
        /\ Last(Conv(u)) = Turn("user", hm.user_message)
        /\ Len(Conv(v)) = 2 /\ user_message_times[v] # << >>

==========================================================================
